---- MODULE Spec2Model ----
(***************************************************************************)
(* Model of src/candidate.py: the shared-tree cache (functools.lru_cache   *)
(* around Candidate._cached_shared_ast), copy-on-write construction of     *)
(* candidates (Candidate.from_source) and the candidate life cycle         *)
(* (randomize_ast, get_source, compile, score).                            *)
(*                                                                         *)
(* Python objects live in an explicit heap so that aliasing between the    *)
(* cached tree and the candidates' trees is visible: a FileAST object      *)
(* refers to its ext list, a list refers to its items, a FuncDef node      *)
(* refers to its body.                                                     *)
(***************************************************************************)
EXTENDS Integers, Sequences, FiniteSets, TLC

VARIABLES cache, heap, cands, fs, probe, recency, last, held

vars == <<cache, heap, cands, fs, probe, recency, last, held>>

----------------------------------------------------------------------------
(* Bounds of the model *)

NumSources == 1     \* source texts 1..NumSources
NumSlots == 2       \* variables of the worker that hold a Candidate
NumSeeds == 2       \* seeds 0..NumSeeds-1
MaxCalls == 2       \* randomize() calls on one Randomizer instance
NumPaths == 1       \* temporary file names the compiler can use
NumLRUSources == 18 \* source texts of the cache specification
NumShareCalls == 1 \* randomize_ast() calls on one candidate of the sharing specification
NumHot == 1         \* source texts the cache specification may re-request at any time

(* Program constant *)
MaxSize == 16       \* functools.lru_cache(maxsize=16)

(* Shape of the abstract trees and texts *)
ValMod == 3         \* function bodies are values 0..ValMod-1

----------------------------------------------------------------------------
(* Optional[T]: None, or a value *)

None == <<>>
Some(x) == <<x>>
Get(o) == o[1]

\* Strings (paths, fingerprints) and texts are sequences of symbols
EmptyStr == <<>>

\* Python truthiness of an Optional[str]: None and "" are false
Truthy(o) == o /= None /\ Get(o) /= EmptyStr

Range(s) == {s[i] : i \in DOMAIN s}

----------------------------------------------------------------------------
(* Heap objects *)

FileAST(ext) == [kind |-> "FileAST", refs |-> <<ext>>, val |-> 0]
List(items) == [kind |-> "list", refs |-> items, val |-> 0]
FuncDef(body) == [kind |-> "FuncDef", refs |-> <<body>>, val |-> 0]
Compound(v) == [kind |-> "Compound", refs |-> <<>>, val |-> v]

\* The heap is the sequence of the live objects; the address of an object
\* is its position.  The n addresses after the last are free.
Fresh(h, n) == [i \in 1..n |-> Len(h) + i]

\* h with the new objects objs, stored at Fresh(h, Len(objs))
Store(h, objs) == h \o objs

ExtOf(h, ast) == h[ast].refs[1]             \* ast.ext, the address of the list
ItemsOf(h, ast) == h[ExtOf(h, ast)].refs    \* the items of ast.ext
BodyOf(h, fn) == h[fn].refs[1]              \* fn.body

----------------------------------------------------------------------------
(* Python's copy module and attribute / item assignment, on the heap *)

\* copy.copy(x): a new object with the same fields, referring to the same objects
copy_copy(h, x) ==
    LET a == Fresh(h, 1)[1]
    IN [heap |-> Store(h, <<h[x]>>), addr |-> a]

\* a copy of a FuncDef that is not deep: the new FuncDef refers to the old body
copy_shallow(h, fn) == copy_copy(h, fn)

\* copy.deepcopy(fn) of a FuncDef: a new FuncDef with a new copy of its body
copy_deepcopy(h, fn) ==
    LET a == Fresh(h, 2)
    IN [heap |-> Store(h, <<FuncDef(a[2]), h[BodyOf(h, fn)]>>), addr |-> a[1]]

\* ast.ext = l
SetExt(h, ast, l) == [h EXCEPT ![ast].refs = <<l>>]

\* ast.ext[i] = x   (i counts from 1 here, from 0 in Python)
SetExtItem(h, ast, i, x) == [h EXCEPT ![ExtOf(h, ast)].refs[i] = x]

----------------------------------------------------------------------------
(* Collaborators of candidate.py: parser and normalizer, renderer,         *)
(* randomizer.  Their code is outside src/; they are modelled from their   *)
(* contracts in the specification.                                         *)

\* Every source text s defines the functions f and g, in an order that
\* depends on s; no source defines h.
FnBody(s, fn) == IF fn = "f" THEN s % ValMod ELSE (s + ValMod - 1) % ValMod
FnPos(s, fn) == IF (fn = "f") = (s % 2 = 1) THEN 1 ELSE 2
NameAt(s, i) == IF FnPos(s, "f") = i THEN "f" ELSE "g"

\* ast_util.extract_fn raises when the function is not found
ParseOk(s, fn) == fn \in {"f", "g"}

\* CParser().parse, extract_fn, normalize_ast: a new tree on the heap
Parse(h, s, fn) ==
    LET a == Fresh(h, 6)
        objs == << FileAST(a[2]), List(<<a[3], a[5]>>),
                   FuncDef(a[4]), Compound(FnBody(s, NameAt(s, 1))),
                   FuncDef(a[6]), Compound(FnBody(s, NameAt(s, 2))) >>
    IN [heap |-> Store(h, objs),
        result |-> [orig_fn |-> IF FnPos(s, fn) = 1 THEN a[3] ELSE a[5],
                    fn_index |-> FnPos(s, fn),
                    ast |-> a[1]]]

\* ast_util.to_c: the text of a tree, a sequence of tokens; an empty body
\* (value 0) renders to nothing
RECURSIVE RenderItems(_, _)
RenderItems(h, items) ==
    IF items = <<>> THEN <<>>
    ELSE LET v == h[BodyOf(h, Head(items))].val
         IN (IF v = 0 THEN <<>> ELSE <<v>>) \o RenderItems(h, Tail(items))

to_c(h, ast) == RenderItems(h, ItemsOf(h, ast))

\* Randomizer(seed): the engine's state is its seed and the number of calls made
Randomizer(seed) == [seed |-> seed, n |-> 0]

\* the engine finds no applicable mutation site
EngineFails(v, rz) == (v + rz.seed) % ValMod = 1

\* the body after a call: mutated on success; on failure left as it was or
\* partially changed, as the engine's state decides
EngineBody(v, rz) ==
    IF EngineFails(v, rz)
    THEN (IF (rz.seed + rz.n) % 2 = 0 THEN v ELSE (v + 1) % ValMod)
    ELSE (v + 1 + ((rz.seed + rz.n) % 2)) % ValMod

\* Randomizer.randomize(ast, fn_index): mutates the body of ast.ext[fn_index]
\* in place and advances the engine
randomize(h, rz, ast, fn_index) ==
    LET body == BodyOf(h, ItemsOf(h, ast)[fn_index])
        v == h[body].val
    IN [ok |-> ~EngineFails(v, rz),
        heap |-> [h EXCEPT ![body].val = EngineBody(v, rz)],
        randomizer |-> [rz EXCEPT !.n = rz.n + 1]]

----------------------------------------------------------------------------
(* The shared-tree cache: functools.lru_cache(maxsize=16) around           *)
(* _cached_shared_ast.  cache is the sequence of entries, least recently   *)
(* used first.                                                             *)

CacheKeys(c) == {c[i].key : i \in DOMAIN c}
CachePos(c, key) == CHOOSE i \in DOMAIN c : c[i].key = key
Without(c, i) == SubSeq(c, 1, i - 1) \o SubSeq(c, i + 1, Len(c))

\* a hit that leaves the order of the entries as it is
LruHitNoMove(c, key) == c

\* a hit moves the entry to the most recently used end
LruHit(c, key) == Append(Without(c, CachePos(c, key)), c[CachePos(c, key)])

\* a miss stores the new entry, evicting the least recently used one when full
LruStore(c, entry) ==
    IF Len(c) >= MaxSize THEN Append(Tail(c), entry) ELSE Append(c, entry)

\* the wrapper not storing the result of a miss
cached_shared_ast_no_store(c, h, source, fn_name) ==
    LET key == <<source, fn_name>>
    IN IF key \in CacheKeys(c)
       THEN [ok |-> TRUE, cache |-> LruHit(c, key), heap |-> h,
             result |-> c[CachePos(c, key)].result, parses |-> 0]
       ELSE IF ~ParseOk(source, fn_name)
       THEN [ok |-> FALSE, cache |-> c, heap |-> h,
             result |-> None, parses |-> 1]
       ELSE LET p == Parse(h, source, fn_name)
            IN [ok |-> TRUE, cache |-> c,
                heap |-> p.heap, result |-> p.result, parses |-> 1]

\* the wrapper storing a failure of the wrapped function as a result
cached_shared_ast_store_failure(c, h, source, fn_name) ==
    LET key == <<source, fn_name>>
    IN IF key \in CacheKeys(c)
       THEN [ok |-> c[CachePos(c, key)].result /= None,
             cache |-> LruHit(c, key), heap |-> h,
             result |-> c[CachePos(c, key)].result, parses |-> 0]
       ELSE IF ~ParseOk(source, fn_name)
       THEN [ok |-> FALSE,
             cache |-> LruStore(c, [key |-> key, result |-> None]),
             heap |-> h, result |-> None, parses |-> 1]
       ELSE LET p == Parse(h, source, fn_name)
            IN [ok |-> TRUE,
                cache |-> LruStore(c, [key |-> key, result |-> p.result]),
                heap |-> p.heap, result |-> p.result, parses |-> 1]

\* Candidate._cached_shared_ast(source, fn_name) through the lru_cache wrapper;
\* parses counts the invocations of the wrapped function
cached_shared_ast(c, h, source, fn_name) ==
    LET key == <<source, fn_name>>
    IN IF key \in CacheKeys(c)
       THEN [ok |-> TRUE, cache |-> LruHit(c, key), heap |-> h,
             result |-> c[CachePos(c, key)].result, parses |-> 0]
       ELSE IF ~ParseOk(source, fn_name)
       THEN [ok |-> FALSE, cache |-> c, heap |-> h,
             result |-> None, parses |-> 1]
       ELSE LET p == Parse(h, source, fn_name)
            IN [ok |-> TRUE,
                cache |-> LruStore(c, [key |-> key, result |-> p.result]),
                heap |-> p.heap, result |-> p.result, parses |-> 1]

----------------------------------------------------------------------------
(* Candidate *)

\* from_source without the copy of ast.ext: the item is assigned in the list
\* that the cached tree refers to
from_source_shared_ext(h, res, rng_seed) ==
    LET c1 == copy_copy(h, res.ast)
        c3 == copy_deepcopy(c1.heap, res.orig_fn)
        h3 == SetExtItem(c3.heap, c1.addr, res.fn_index, c3.addr)
    IN [heap |-> h3,
        cand |-> [ast |-> c1.addr,
                  orig_fn |-> res.orig_fn,
                  fn_index |-> res.fn_index,
                  rng_seed |-> rng_seed,
                  randomizer |-> Randomizer(rng_seed),
                  score_value |-> None,
                  score_hash |-> None,
                  cache_source |-> None]]

\* from_source seeding the engine from the worker's state as well as from
\* the seed given
from_source_global_engine(h, res, rng_seed) ==
    LET c1 == copy_copy(h, res.ast)
        c2 == copy_copy(c1.heap, ExtOf(c1.heap, c1.addr))
        h2 == SetExt(c2.heap, c1.addr, c2.addr)
        c3 == copy_deepcopy(h2, res.orig_fn)
        h3 == SetExtItem(c3.heap, c1.addr, res.fn_index, c3.addr)
    IN [heap |-> h3,
        cand |-> [ast |-> c1.addr,
                  orig_fn |-> res.orig_fn,
                  fn_index |-> res.fn_index,
                  rng_seed |-> rng_seed,
                  randomizer |-> Randomizer(rng_seed + Len(h)),
                  score_value |-> None,
                  score_hash |-> None,
                  cache_source |-> None]]

\* from_source without the copy of the tree object: ext is assigned in the
\* cached FileAST
from_source_no_copy(h, res, rng_seed) ==
    LET c2 == copy_copy(h, ExtOf(h, res.ast))
        h2 == SetExt(c2.heap, res.ast, c2.addr)
        c3 == copy_deepcopy(h2, res.orig_fn)
        h3 == SetExtItem(c3.heap, res.ast, res.fn_index, c3.addr)
    IN [heap |-> h3,
        cand |-> [ast |-> res.ast,
                  orig_fn |-> res.orig_fn,
                  fn_index |-> res.fn_index,
                  rng_seed |-> rng_seed,
                  randomizer |-> Randomizer(rng_seed),
                  score_value |-> None,
                  score_hash |-> None,
                  cache_source |-> None]]

\* Candidate.from_source, after the cache lookup: the new candidate's tree
from_source(h, res, rng_seed) ==
    LET c1 == copy_copy(h, res.ast)                     \* ast = copy.copy(ast)
        c2 == copy_copy(c1.heap, ExtOf(c1.heap, c1.addr))
        h2 == SetExt(c2.heap, c1.addr, c2.addr)         \* ast.ext = copy.copy(ast.ext)
        c3 == copy_deepcopy(h2, res.orig_fn)
        h3 == SetExtItem(c3.heap, c1.addr, res.fn_index, c3.addr)
    IN [heap |-> h3,
        cand |-> [ast |-> c1.addr,
                  orig_fn |-> res.orig_fn,
                  fn_index |-> res.fn_index,
                  rng_seed |-> rng_seed,
                  randomizer |-> Randomizer(rng_seed),
                  score_value |-> None,
                  score_hash |-> None,
                  cache_source |-> None]]

\* get_source testing the cached text for truth instead of for None
get_source_truthy(h, cand) ==
    IF cand.cache_source = None \/ Get(cand.cache_source) = EmptyStr
    THEN [cand |-> [cand EXCEPT !.cache_source = Some(to_c(h, cand.ast))],
          text |-> to_c(h, cand.ast), renders |-> 1]
    ELSE [cand |-> cand, text |-> Get(cand.cache_source), renders |-> 0]

\* Candidate.get_source: the candidate after the call, the text returned and
\* the number of renderer invocations
get_source(h, cand) ==
    IF cand.cache_source = None
    THEN [cand |-> [cand EXCEPT !.cache_source = Some(to_c(h, cand.ast))],
          text |-> to_c(h, cand.ast), renders |-> 1]
    ELSE [cand |-> cand, text |-> Get(cand.cache_source), renders |-> 0]

\* Candidate.randomize_ast
randomize_ast(h, cand) ==
    LET r == randomize(h, cand.randomizer, cand.ast, cand.fn_index)
        c1 == [cand EXCEPT !.randomizer = r.randomizer]
    IN [ok |-> r.ok, heap |-> r.heap,
        cand |-> IF r.ok THEN [c1 EXCEPT !.cache_source = None] ELSE c1]

\* one step of a call: what is invoked, with what argument, and what holds
\* when it is invoked: the candidate's pair is unset, the files that exist
Ev(name, arg, cand, files) ==
    [name |-> name, arg |-> arg,
     pair_unset |-> cand.score_value = None /\ cand.score_hash = None,
     files |-> files]

\* Candidate.compile; out is what compiler.compile returns; sent lists the
\* texts handed to the compiler
compile(h, cand, files, out) ==
    LET g == get_source(h, cand)
    IN [cand |-> g.cand, ret |-> out, sent |-> <<g.text>>, renders |-> g.renders,
        steps |-> <<Ev("get_source", None, cand, files),
                    Ev("compiler", Some(g.text), g.cand, files)>>]

\* helpers.try_remove
try_remove(files, path) == files \ {path}

CandidateResult(score, hash, source) ==
    [score |-> score, hash |-> hash, source |-> source]

\* score resetting score_value only
score_half_reset(h, cand, files, o_file, out) ==
    LET c1 == [cand EXCEPT !.score_value = None]
        c2 == IF out.ok
              THEN [c1 EXCEPT !.score_value = Some(out.score),
                              !.score_hash = Some(out.hash)]
              ELSE c1
        files2 == IF Truthy(o_file) THEN try_remove(files, Get(o_file)) ELSE files
        g == get_source(h, c2)
        steps == <<Ev("reset", None, c1, files), Ev("scorer", o_file, c1, files)>>
                 \o (IF Truthy(o_file)
                     THEN <<Ev("try_remove", o_file, c2, files)>> ELSE <<>>)
    IN IF out.ok
       THEN [ok |-> TRUE, cand |-> g.cand, fs |-> files2, renders |-> g.renders,
             ret |-> Some(CandidateResult(c2.score_value, c2.score_hash, g.text)),
             steps |-> steps \o <<Ev("get_source", None, c2, files2),
                                  Ev("CandidateResult", None, g.cand, files2)>>]
       ELSE [ok |-> FALSE, cand |-> c2, fs |-> files2, renders |-> 0,
             ret |-> None, steps |-> steps]

\* score without the reset before the scorer is invoked
score_no_reset(h, cand, files, o_file, out) ==
    LET c2 == IF out.ok
              THEN [cand EXCEPT !.score_value = Some(out.score),
                                !.score_hash = Some(out.hash)]
              ELSE cand
        files2 == IF Truthy(o_file) THEN try_remove(files, Get(o_file)) ELSE files
        g == get_source(h, c2)
        steps == <<Ev("scorer", o_file, cand, files)>>
                 \o (IF Truthy(o_file)
                     THEN <<Ev("try_remove", o_file, c2, files)>> ELSE <<>>)
    IN IF out.ok
       THEN [ok |-> TRUE, cand |-> g.cand, fs |-> files2, renders |-> g.renders,
             ret |-> Some(CandidateResult(c2.score_value, c2.score_hash, g.text)),
             steps |-> steps \o <<Ev("get_source", None, c2, files2),
                                  Ev("CandidateResult", None, g.cand, files2)>>]
       ELSE [ok |-> FALSE, cand |-> c2, fs |-> files2, renders |-> 0,
             ret |-> None, steps |-> steps]

\* score removing the artifact after the scorer returned, not in a finally
score_no_finally(h, cand, files, o_file, out) ==
    LET c1 == [cand EXCEPT !.score_value = None, !.score_hash = None]
        c2 == IF out.ok
              THEN [c1 EXCEPT !.score_value = Some(out.score),
                              !.score_hash = Some(out.hash)]
              ELSE c1
        files2 == IF out.ok /\ Truthy(o_file)
                  THEN try_remove(files, Get(o_file)) ELSE files
        g == get_source(h, c2)
        steps == <<Ev("reset", None, c1, files), Ev("scorer", o_file, c1, files)>>
                 \o (IF out.ok /\ Truthy(o_file)
                     THEN <<Ev("try_remove", o_file, c2, files)>> ELSE <<>>)
    IN IF out.ok
       THEN [ok |-> TRUE, cand |-> g.cand, fs |-> files2, renders |-> g.renders,
             ret |-> Some(CandidateResult(c2.score_value, c2.score_hash, g.text)),
             steps |-> steps \o <<Ev("get_source", None, c2, files2),
                                  Ev("CandidateResult", None, g.cand, files2)>>]
       ELSE [ok |-> FALSE, cand |-> c2, fs |-> files2, renders |-> 0,
             ret |-> None, steps |-> steps]

\* score catching the scorer's failure and returning a result without a pair
score_swallow_failure(h, cand, files, o_file, out) ==
    LET c1 == [cand EXCEPT !.score_value = None, !.score_hash = None]
        c2 == IF out.ok
              THEN [c1 EXCEPT !.score_value = Some(out.score),
                              !.score_hash = Some(out.hash)]
              ELSE c1
        files2 == IF Truthy(o_file) THEN try_remove(files, Get(o_file)) ELSE files
        g == get_source(h, c2)
        steps == <<Ev("reset", None, c1, files), Ev("scorer", o_file, c1, files)>>
                 \o (IF Truthy(o_file)
                     THEN <<Ev("try_remove", o_file, c2, files)>> ELSE <<>>)
    IN [ok |-> TRUE, cand |-> g.cand, fs |-> files2, renders |-> g.renders,
        ret |-> Some(CandidateResult(c2.score_value, c2.score_hash, g.text)),
        steps |-> steps \o <<Ev("get_source", None, c2, files2),
                             Ev("CandidateResult", None, g.cand, files2)>>]

\* score removing the artifact before the scorer is invoked
score_remove_first(h, cand, files, o_file, out) ==
    LET c1 == [cand EXCEPT !.score_value = None, !.score_hash = None]
        c2 == IF out.ok
              THEN [c1 EXCEPT !.score_value = Some(out.score),
                              !.score_hash = Some(out.hash)]
              ELSE c1
        files2 == IF Truthy(o_file) THEN try_remove(files, Get(o_file)) ELSE files
        g == get_source(h, c2)
        steps == <<Ev("reset", None, c1, files)>>
                 \o (IF Truthy(o_file)
                     THEN <<Ev("try_remove", o_file, c1, files)>> ELSE <<>>)
                 \o <<Ev("scorer", o_file, c1, files2)>>
    IN IF out.ok
       THEN [ok |-> TRUE, cand |-> g.cand, fs |-> files2, renders |-> g.renders,
             ret |-> Some(CandidateResult(c2.score_value, c2.score_hash, g.text)),
             steps |-> steps \o <<Ev("get_source", None, c2, files2),
                                  Ev("CandidateResult", None, g.cand, files2)>>]
       ELSE [ok |-> FALSE, cand |-> c2, fs |-> files2, renders |-> 0,
             ret |-> None, steps |-> steps]

\* score not invoking the scorer when there is no artifact
score_skip_absent(h, cand, files, o_file, out) ==
    LET c1 == [cand EXCEPT !.score_value = None, !.score_hash = None]
        c2 == IF out.ok /\ Truthy(o_file)
              THEN [c1 EXCEPT !.score_value = Some(out.score),
                              !.score_hash = Some(out.hash)]
              ELSE c1
        files2 == IF Truthy(o_file) THEN try_remove(files, Get(o_file)) ELSE files
        g == get_source(h, c2)
        steps == <<Ev("reset", None, c1, files)>>
                 \o (IF Truthy(o_file)
                     THEN <<Ev("scorer", o_file, c1, files),
                            Ev("try_remove", o_file, c2, files)>>
                     ELSE <<>>)
    IN IF out.ok \/ ~Truthy(o_file)
       THEN [ok |-> TRUE, cand |-> g.cand, fs |-> files2, renders |-> g.renders,
             ret |-> Some(CandidateResult(c2.score_value, c2.score_hash, g.text)),
             steps |-> steps \o <<Ev("get_source", None, c2, files2),
                                  Ev("CandidateResult", None, g.cand, files2)>>]
       ELSE [ok |-> FALSE, cand |-> c2, fs |-> files2, renders |-> 0,
             ret |-> None, steps |-> steps]

\* score building the result from the pair as it is before the scorer's pair
\* is stored
score_result_before_store(h, cand, files, o_file, out) ==
    LET c1 == [cand EXCEPT !.score_value = None, !.score_hash = None]
        c2 == IF out.ok
              THEN [c1 EXCEPT !.score_value = Some(out.score),
                              !.score_hash = Some(out.hash)]
              ELSE c1
        files2 == IF Truthy(o_file) THEN try_remove(files, Get(o_file)) ELSE files
        g == get_source(h, c2)
        steps == <<Ev("reset", None, c1, files), Ev("scorer", o_file, c1, files)>>
                 \o (IF Truthy(o_file)
                     THEN <<Ev("try_remove", o_file, c2, files)>> ELSE <<>>)
    IN IF out.ok
       THEN [ok |-> TRUE, cand |-> g.cand, fs |-> files2, renders |-> g.renders,
             ret |-> Some(CandidateResult(c1.score_value, c1.score_hash, g.text)),
             steps |-> steps \o <<Ev("get_source", None, c2, files2),
                                  Ev("CandidateResult", None, g.cand, files2)>>]
       ELSE [ok |-> FALSE, cand |-> c2, fs |-> files2, renders |-> 0,
             ret |-> None, steps |-> steps]

\* score rendering the tree for the result instead of calling get_source
score_rerender(h, cand, files, o_file, out) ==
    LET c1 == [cand EXCEPT !.score_value = None, !.score_hash = None]
        c2 == IF out.ok
              THEN [c1 EXCEPT !.score_value = Some(out.score),
                              !.score_hash = Some(out.hash)]
              ELSE c1
        files2 == IF Truthy(o_file) THEN try_remove(files, Get(o_file)) ELSE files
        steps == <<Ev("reset", None, c1, files), Ev("scorer", o_file, c1, files)>>
                 \o (IF Truthy(o_file)
                     THEN <<Ev("try_remove", o_file, c2, files)>> ELSE <<>>)
    IN IF out.ok
       THEN [ok |-> TRUE, cand |-> c2, fs |-> files2, renders |-> 1,
             ret |-> Some(CandidateResult(c2.score_value, c2.score_hash,
                                          to_c(h, c2.ast))),
             steps |-> steps \o <<Ev("to_c", None, c2, files2),
                                  Ev("CandidateResult", None, c2, files2)>>]
       ELSE [ok |-> FALSE, cand |-> c2, fs |-> files2, renders |-> 0,
             ret |-> None, steps |-> steps]

\* Candidate.score; out is the outcome of scorer.score(o_file)
score(h, cand, files, o_file, out) ==
    LET c1 == [cand EXCEPT !.score_value = None, !.score_hash = None]
        c2 == IF out.ok
              THEN [c1 EXCEPT !.score_value = Some(out.score),
                              !.score_hash = Some(out.hash)]
              ELSE c1
        files2 == IF Truthy(o_file) THEN try_remove(files, Get(o_file)) ELSE files
        g == get_source(h, c2)
        steps == <<Ev("reset", None, c1, files), Ev("scorer", o_file, c1, files)>>
                 \o (IF Truthy(o_file)
                     THEN <<Ev("try_remove", o_file, c2, files)>> ELSE <<>>)
    IN IF out.ok
       THEN [ok |-> TRUE, cand |-> g.cand, fs |-> files2, renders |-> g.renders,
             ret |-> Some(CandidateResult(c2.score_value, c2.score_hash, g.text)),
             steps |-> steps \o <<Ev("get_source", None, c2, files2),
                                  Ev("CandidateResult", None, g.cand, files2)>>]
       ELSE [ok |-> FALSE, cand |-> c2, fs |-> files2, renders |-> 0,
             ret |-> None, steps |-> steps]

----------------------------------------------------------------------------
(* The worker: its candidates, the files of its compiler, its calls *)

Slots == 1..NumSlots
Sources == 1..NumSources
Seeds == 0..(NumSeeds - 1)
Paths == {<<i>> : i \in 1..NumPaths}

\* compiler.compile: no artifact (None or the empty result), or the path of
\* a new temporary file
CompilerOutcomes(files) == {None, Some(EmptyStr)} \cup {Some(p) : p \in Paths \ files}

\* scorer.score: raises, or returns a (score, fingerprint) pair
ScorerOutcomes ==
    { [ok |-> FALSE, score |-> 0, hash |-> EmptyStr],
      [ok |-> TRUE, score |-> 0, hash |-> EmptyStr],
      [ok |-> TRUE, score |-> 1, hash |-> <<7>>] }

\* the artifact arguments given to score
ArtifactArgs == {None, Some(EmptyStr)} \cup {Some(p) : p \in Paths}

\* Objects that no variable of the worker and no cache entry refers to are
\* freed, and the live objects are numbered in the order in which a walk
\* from the cache entries and then from the candidates meets them: the
\* address of an object carries no information beyond its identity.
RootSeq(c, cs) ==
    LET FromCache ==
            [j \in 1..(2 * Len(c)) |->
                IF j % 2 = 1 THEN c[(j + 1) \div 2].result.ast
                ELSE c[j \div 2].result.orig_fn]
        FromCand(k) ==
            IF k \in DOMAIN cs THEN <<cs[k].ast, cs[k].orig_fn>> ELSE <<>>
        RECURSIVE FromCands(_)
        FromCands(k) ==
            IF k > NumSlots THEN <<>> ELSE FromCand(k) \o FromCands(k + 1)
    IN FromCache \o FromCands(1)

\* the walk: order lists the objects met, pos gives every object met its
\* place in order and every other object 0
RECURSIVE Walk(_, _, _, _)
Walk(h, todo, order, pos) ==
    IF todo = <<>> THEN [order |-> order, pos |-> pos]
    ELSE IF pos[Head(todo)] /= 0 THEN Walk(h, Tail(todo), order, pos)
    ELSE Walk(h, h[Head(todo)].refs \o Tail(todo), Append(order, Head(todo)),
              [pos EXCEPT ![Head(todo)] = Len(order) + 1])

\* the walk from each of the roots lo..hi in turn, continuing the walk w:
\* first from the roots of the lower half, then from those of the upper half
RECURSIVE WalkRoots(_, _, _, _, _)
WalkRoots(h, roots, lo, hi, w) ==
    IF lo > hi THEN w
    ELSE IF lo = hi THEN Walk(h, <<roots[lo]>>, w.order, w.pos)
    ELSE CHOOSE r \in { WalkRoots(h, roots, ((lo + hi) \div 2) + 1, hi, lower) :
                          lower \in {WalkRoots(h, roots, lo, (lo + hi) \div 2, w)} } :
            TRUE

\* heap, cache and candidates with every address a replaced by w.pos[a], the
\* objects that were not met freed
Renumber(h, c, cs, w) ==
    [heap |-> [i \in DOMAIN w.order |->
                 [h[w.order[i]] EXCEPT
                     !.refs = [j \in DOMAIN @ |-> w.pos[@[j]]]]],
     cache |-> [i \in DOMAIN c |->
                  [c[i] EXCEPT !.result.ast = w.pos[@],
                               !.result.orig_fn = w.pos[@]]],
     cands |-> [k \in DOMAIN cs |->
                  [cs[k] EXCEPT !.ast = w.pos[@], !.orig_fn = w.pos[@]]]]

Collect(h, c, cs) ==
    CHOOSE r \in
        UNION { UNION { { Renumber(h, c, cs, w) :
                            w \in {WalkRoots(h, roots, 1, Len(roots), w0)} } :
                        w0 \in {[order |-> <<>>, pos |-> [a \in DOMAIN h |-> 0]]} } :
                roots \in {RootSeq(c, cs)} } : TRUE

\* instrumentation of one candidate: the key it was built from and, since
\* its creation or its last randomize_ast call, the renderer invocations,
\* the text observed, whether every observation returned that same text, and
\* for every artifact compiled and not yet scored the text the compiler got
NoProbe(key) ==
    [key |-> key, renders |-> 0, seen |-> None, same |-> TRUE, sent |-> <<>>]

Observe(pr, text, renders) ==
    [key |-> pr.key,
     renders |-> pr.renders + renders,
     seen |-> Some(text),
     same |-> pr.same /\ (pr.seen = None \/ pr.seen = Some(text)),
     sent |-> pr.sent]

\* the artifact o_file was compiled from text
Compiled(pr, o_file, text) ==
    IF Truthy(o_file)
    THEN [pr EXCEPT !.sent = (Get(o_file) :> text) @@ pr.sent]
    ELSE pr

\* the artifact o_file was given to score
Scored(pr, o_file) ==
    IF Truthy(o_file)
    THEN [pr EXCEPT !.sent = [p \in DOMAIN pr.sent \ {Get(o_file)} |-> pr.sent[p]]]
    ELSE pr

\* history of the cache's use: the keys from_source has obtained a tree for,
\* each once, the most recently obtained last
Touch(rec, key) == Append(SelectSeq(rec, LAMBDA k : k /= key), key)

\* what was true when a call started: the candidate had a cached source, had a
\* score and fingerprint, and the artifact given to score existed
NoPre == [cached |-> FALSE, pair_set |-> FALSE, existed |-> FALSE]

Pre(cand, files, o_file) ==
    [cached |-> cand.cache_source /= None,
     pair_set |-> cand.score_value /= None \/ cand.score_hash /= None,
     existed |-> o_file /= None /\ Get(o_file) \in files]

\* the record of the worker's last call: the operation, the candidate, whether
\* it returned normally, its argument, what it returned, and the number of
\* normalizer and renderer invocations it made, and its steps
Call(op, slot, ok, arg, ret, parses, renders, pre, steps) ==
    [op |-> op, slot |-> slot, ok |-> ok, arg |-> arg, ret |-> ret,
     parses |-> parses, renders |-> renders, pre |-> pre, steps |-> steps]

Init ==
    /\ cache = <<>>
    /\ heap = <<>>
    /\ cands = <<>>
    /\ fs = {}
    /\ probe = <<>>
    /\ recency = <<>>
    /\ last = Call("init", 0, TRUE, None, None, 0, 0, NoPre, <<>>)
    /\ held = None

\* cands[slot] = Candidate.from_source(source, fn_name, rng_seed)
FromSource(slot, source, fn_name, rng_seed) ==
    \E r \in {cached_shared_ast(cache, heap, source, fn_name)} :
       IF r.ok
       THEN \E b \in {from_source(r.heap, r.result, rng_seed)} :
            \E m \in {Collect(b.heap, r.cache, (slot :> b.cand) @@ cands)} :
               /\ cache' = m.cache
               /\ cands' = m.cands
               /\ heap' = m.heap
               /\ probe' = (slot :> NoProbe(<<source, fn_name>>)) @@ probe
               /\ recency' = Touch(recency, <<source, fn_name>>)
               /\ last' = Call("from_source", slot, TRUE, <<source, fn_name>>,
                               None, r.parses, 0, NoPre, <<>>)
               /\ UNCHANGED <<fs, held>>
       ELSE /\ cache' = r.cache
            /\ heap' = r.heap
            /\ last' = Call("from_source", slot, FALSE, <<source, fn_name>>,
                            None, r.parses, 0, NoPre, <<>>)
            /\ UNCHANGED <<cands, fs, probe, recency, held>>

\* cands[slot].randomize_ast()
RandomizeAst(slot) ==
    /\ slot \in DOMAIN cands
    /\ cands[slot].randomizer.n < MaxCalls
    /\ \E r \in {randomize_ast(heap, cands[slot])} :
          /\ heap' = r.heap
          /\ cands' = [cands EXCEPT ![slot] = r.cand]
          /\ probe' = [probe EXCEPT ![slot] = NoProbe(@.key)]
          /\ last' = Call("randomize_ast", slot, r.ok, None, None, 0, 0,
                          Pre(cands[slot], fs, None), <<>>)
    /\ UNCHANGED <<cache, fs, recency, held>>

\* cands[slot].get_source()
GetSource(slot) ==
    /\ slot \in DOMAIN cands
    /\ \E g \in {get_source(heap, cands[slot])} :
          /\ cands' = [cands EXCEPT ![slot] = g.cand]
          /\ probe' = [probe EXCEPT ![slot] = Observe(@, g.text, g.renders)]
          /\ last' = Call("get_source", slot, TRUE, None, g.text, 0, g.renders,
                          Pre(cands[slot], fs, None), <<>>)
    /\ UNCHANGED <<cache, heap, fs, recency, held>>

\* cands[slot].compile(compiler)
Compile(slot, out) ==
    /\ slot \in DOMAIN cands
    /\ out \in CompilerOutcomes(fs)
    /\ \E r \in {compile(heap, cands[slot], fs, out)} :
          /\ cands' = [cands EXCEPT ![slot] = r.cand]
          /\ fs' = IF Truthy(r.ret) THEN fs \cup {Get(r.ret)} ELSE fs
          /\ probe' = [probe EXCEPT ![slot] =
                          Compiled(Observe(@, r.sent[1], r.renders), r.ret, r.sent[1])]
          /\ last' = Call("compile", slot, TRUE, r.sent, r.ret, 0, r.renders,
                          Pre(cands[slot], fs, None), r.steps)
    /\ UNCHANGED <<cache, heap, recency, held>>

\* cands[slot].score(scorer, o_file); what the worker does with the result is
\* the caller's part
Score(slot, o_file, out) ==
    /\ slot \in DOMAIN cands
    /\ \E r \in {score(heap, cands[slot], fs, o_file, out)} :
          /\ cands' = [cands EXCEPT ![slot] = r.cand]
          /\ fs' = r.fs
          /\ probe' = IF r.ok
                      THEN [probe EXCEPT ![slot] =
                                Scored(Observe(@, Get(r.ret).source, r.renders), o_file)]
                      ELSE [probe EXCEPT ![slot] = Scored(@, o_file)]
          /\ last' = Call("score", slot, r.ok, o_file, r.ret, 0, r.renders,
                          Pre(cands[slot], fs, o_file), r.steps)
    /\ UNCHANGED <<cache, heap, recency>>

(* One candidate through its life cycle *)
Next ==
    \/ \E source \in Sources, fn_name \in {"f", "h"}, seed \in Seeds :
          FromSource(1, source, fn_name, seed)
    \/ RandomizeAst(1)
    \/ GetSource(1)
    \/ \E out \in CompilerOutcomes(fs) : Compile(1, out)
    \/ \E o_file \in ArtifactArgs, out \in ScorerOutcomes :
          Score(1, o_file, out) /\ UNCHANGED held

Spec == Init /\ [][Next]_vars

\* held = cands[slot].score(scorer, o_file): the worker keeps the result
\* returned last, and keeps what it has when the call fails
ScoreKeep(slot, o_file, out) ==
    /\ Score(slot, o_file, out)
    /\ held' = IF last'.ok THEN last'.ret ELSE held

(* One candidate through its life cycle, the worker keeping the result *)
NextResults ==
    \/ \E seed \in Seeds : FromSource(1, 1, "f", seed)
    \/ RandomizeAst(1)
    \/ GetSource(1)
    \/ \E out \in CompilerOutcomes(fs) : Compile(1, out)
    \/ \E o_file \in ArtifactArgs, out \in ScorerOutcomes :
          ScoreKeep(1, o_file, out)

SpecResults == Init /\ [][NextResults]_vars

(* Several candidates built from the same cache entries *)
NextShare ==
    \/ \E slot \in Slots, seed \in Seeds :
          FromSource(slot, 1, "f", seed)
    \/ \E slot \in Slots :
          /\ slot \in DOMAIN cands
          /\ cands[slot].randomizer.n < NumShareCalls
          /\ RandomizeAst(slot)
    \/ \E slot \in Slots : GetSource(slot)

SpecShare == Init /\ [][NextShare]_vars

(* The cache filled beyond its capacity: the worker asks for one of the    *)
(* first NumHot source texts again, or for the source text after the       *)
(* highest one it has obtained a tree for.                                 *)
Highest(rec) ==
    IF rec = <<>> THEN 0
    ELSE CHOOSE m \in {rec[i][1] : i \in DOMAIN rec} :
            \A i \in DOMAIN rec : rec[i][1] <= m

LRUInputs == (1..NumHot) \cup {(Highest(recency) % NumLRUSources) + 1}

NextLRU ==
    \E source \in LRUInputs, fn_name \in {"f", "h"} :
        FromSource(1, source, fn_name, 0)

SpecLRU == Init /\ [][NextLRU]_vars

----------------------------------------------------------------------------
(* What a candidate's tree and text are, told from its history alone *)

\* the bodies of the top-level functions of a tree, in order
TreeVals(h, ast) ==
    [i \in DOMAIN ItemsOf(h, ast) |-> h[BodyOf(h, ItemsOf(h, ast)[i])].val]

\* the text of a tree given by its bodies
RECURSIVE TextOf(_)
TextOf(vals) ==
    IF vals = <<>> THEN <<>>
    ELSE (IF Head(vals) = 0 THEN <<>> ELSE <<Head(vals)>>) \o TextOf(Tail(vals))

\* the body after k more calls of an engine in state rz
RECURSIVE Replay(_, _, _)
Replay(v, rz, k) ==
    IF k = 0 THEN v
    ELSE Replay(EngineBody(v, rz), [rz EXCEPT !.n = rz.n + 1], k - 1)

\* the bodies of the tree the normalizer makes of a key
OriginalVals(key) == [i \in 1..2 |-> FnBody(key[1], NameAt(key[1], i))]

\* the bodies of a candidate built from key with seed, after n randomize_ast calls
ExpectedVals(key, seed, n) ==
    [OriginalVals(key) EXCEPT
        ![FnPos(key[1], key[2])] = Replay(@, Randomizer(seed), n)]

----------------------------------------------------------------------------
(* Claims about candidates that share a cache entry (SpecShare) *)

\* C1: a randomize_ast() on one candidate changes neither the tree of another
\* candidate nor the text the other's get_source() returns; every candidate's
\* tree is the original tree of its key with its own randomizations applied.
C1_Isolation ==
    [][ /\ \A i \in Slots, j \in Slots :
              (/\ i /= j /\ j \in DOMAIN cands
               /\ last'.op = "randomize_ast" /\ RandomizeAst(i)) =>
                 /\ TreeVals(heap', cands'[j].ast) = TreeVals(heap, cands[j].ast)
                 /\ get_source(heap', cands'[j]).text
                      = get_source(heap, cands[j]).text
        /\ \A j \in DOMAIN cands' :
              TreeVals(heap', cands'[j].ast)
                = ExpectedVals(probe'[j].key, cands'[j].rng_seed,
                               cands'[j].randomizer.n) ]_vars

\* two candidates of one key, the one just randomized with a changed tree,
\* the other still with the original tree
C1_Witness ==
    /\ last.op = "randomize_ast"
    /\ \E j \in DOMAIN cands :
          /\ j /= last.slot
          /\ probe[j].key = probe[last.slot].key
          /\ TreeVals(heap, cands[j].ast) = OriginalVals(probe[j].key)
          /\ TreeVals(heap, cands[last.slot].ast) /= OriginalVals(probe[j].key)

\* C7: a candidate that has not been randomized renders the text of the
\* original tree of its key, whatever its seed and whatever happened to the
\* other candidates of that key.
C7_FreshRendersOriginal ==
    /\ \A j \in DOMAIN cands :
          cands[j].randomizer.n = 0 =>
             /\ to_c(heap, cands[j].ast) = TextOf(OriginalVals(probe[j].key))
             /\ get_source(heap, cands[j]).text = TextOf(OriginalVals(probe[j].key))
    /\ (last.op = "get_source" /\ cands[last.slot].randomizer.n = 0) =>
          last.ret = TextOf(OriginalVals(probe[last.slot].key))

\* an unrandomized candidate has just been rendered while another candidate
\* of the same key, built with another seed, has a randomized tree
C7_Witness ==
    /\ last.op = "get_source"
    /\ cands[last.slot].randomizer.n = 0
    /\ \E j \in DOMAIN cands :
          /\ probe[j].key = probe[last.slot].key
          /\ cands[j].rng_seed /= cands[last.slot].rng_seed
          /\ cands[j].randomizer.n > 0
          /\ TreeVals(heap, cands[j].ast) /= OriginalVals(probe[j].key)

----------------------------------------------------------------------------
(* Claims about one candidate's life cycle (Spec) *)

\* C2: in every state of a candidate, score_value and score_hash are both
\* unset or both set.
C2_PairTogether ==
    \A k \in DOMAIN cands :
        (cands[k].score_value = None) <=> (cands[k].score_hash = None)

\* a score() has failed on a candidate that had the pair set
C2_Witness ==
    /\ last.op = "score" /\ ~last.ok /\ last.pre.pair_set
    /\ cands[last.slot].score_value = None
    /\ cands[last.slot].score_hash = None

\* C3: a score() that returns leaves score_value and score_hash set to the
\* pair the scorer returned; a score() that fails because the scorer failed
\* leaves both unset, also when the pair was set before the call.
C3_ScoreOutcome ==
    [][ \A o_file \in ArtifactArgs, out \in ScorerOutcomes :
            (last'.op = "score" /\ last'.arg = o_file /\ Score(1, o_file, out)) =>
               IF out.ok
               THEN /\ last'.ok
                    /\ cands'[1].score_value = Some(out.score)
                    /\ cands'[1].score_hash = Some(out.hash)
               ELSE /\ ~last'.ok
                    /\ cands'[1].score_value = None
                    /\ cands'[1].score_hash = None ]_vars

\* a score() has failed after an earlier one had set the pair, and both
\* fields are unset
C3_Witness ==
    /\ last.op = "score" /\ ~last.ok /\ last.pre.pair_set
    /\ cands[last.slot].score_value = None
    /\ cands[last.slot].score_hash = None
    /\ last.ret = None

\* C4: an artifact that exists when score() is called with its path does not
\* exist once score() has returned or failed.
C4_ArtifactRemoved ==
    [][ \A o_file \in ArtifactArgs, out \in ScorerOutcomes :
            (/\ last'.op = "score" /\ last'.arg = o_file
             /\ o_file /= None /\ Get(o_file) \in fs
             /\ Score(1, o_file, out)) =>
               Get(o_file) \notin fs' ]_vars

\* a score() given an existing artifact has failed and the artifact is gone
C4_Witness ==
    /\ last.op = "score" /\ ~last.ok /\ last.pre.existed
    /\ Get(last.arg) \notin fs

\* C5: after any randomize_ast() call, whether the engine returned or
\* failed, the cached source is unset, so that the next get_source()
\* renders the current tree.
C5_AlwaysInvalidated ==
    last.op = "randomize_ast" =>
        /\ cands[last.slot].cache_source = None
        /\ get_source(heap, cands[last.slot]).text = to_c(heap, cands[last.slot].ast)

\* C6: between two randomize_ast() calls, or between creation and the first,
\* the renderer is invoked at most once and every get_source(), compile()
\* and score() observes the same text, the empty text included.
C6_RenderedOnce ==
    \A k \in DOMAIN cands : probe[k].renders <= 1 /\ probe[k].same

\* a call has observed the empty text from the cache, without rendering
C6_Witness ==
    /\ last.op \in {"get_source", "compile", "score"}
    /\ last.ok /\ last.pre.cached /\ last.renders = 0
    /\ probe[last.slot].renders = 1
    /\ probe[last.slot].seen = Some(EmptyStr)

----------------------------------------------------------------------------
(* Claims about the steps and the results of compile() and score() *)

\* the place of the first step called name in steps, 0 when there is none
RECURSIVE PosFrom(_, _, _)
PosFrom(steps, name, i) ==
    IF i > Len(steps) THEN 0
    ELSE IF steps[i].name = name THEN i
    ELSE PosFrom(steps, name, i + 1)

Pos(steps, name) == PosFrom(steps, name, 1)

\* the number of steps called name
Count(steps, name) == Cardinality({i \in DOMAIN steps : steps[i].name = name})

\* C11: a score() whose scorer fails fails itself, returns no CandidateResult
\* and builds none, and the artifact it was given has been removed when the
\* failure reaches the caller.
C11_FailurePropagates ==
    [][ \A o_file \in ArtifactArgs, out \in ScorerOutcomes :
            (/\ last'.op = "score" /\ last'.arg = o_file /\ ~out.ok
             /\ Score(1, o_file, out)) =>
               /\ ~last'.ok
               /\ last'.ret = None
               /\ Pos(last'.steps, "CandidateResult") = 0
               /\ Truthy(o_file) =>
                     /\ Pos(last'.steps, "try_remove") > 0
                     /\ Get(o_file) \notin fs' ]_vars

\* a score() of an existing artifact has failed; its last step was the
\* removal and nothing was returned
C11_Witness ==
    /\ last.op = "score" /\ ~last.ok /\ last.pre.existed
    /\ last.ret = None
    /\ last.steps[Len(last.steps)].name = "try_remove"
    /\ fs = {}

\* C12: a compile() hands the rendering of the candidate's current tree to
\* the compiler, once, and returns what the compiler returned; without an
\* artifact no file is made; the tree, score_value and score_hash are as
\* before.
C12_CompileForwards ==
    [][ \A out \in CompilerOutcomes(fs) :
            (last'.op = "compile" /\ Compile(1, out)) =>
               /\ last'.arg = <<to_c(heap, cands[1].ast)>>
               /\ Count(last'.steps, "compiler") = 1
               /\ last'.ret = out
               /\ ~Truthy(out) => fs' = fs
               /\ heap' = heap
               /\ cands'[1].ast = cands[1].ast
               /\ cands'[1].score_value = cands[1].score_value
               /\ cands'[1].score_hash = cands[1].score_hash ]_vars

\* C13: in a score() the pair is reset, then the scorer is invoked, then the
\* artifact is removed, then, when the scorer returned, the CandidateResult
\* is built; when the scorer is invoked the pair is unset and the artifact
\* given, if it existed, still exists.
C13_StepOrder ==
    last.op = "score" =>
        LET st == last.steps
            scorer == st[Pos(st, "scorer")]
        IN /\ Pos(st, "reset") = 1
           /\ Pos(st, "scorer") = 2
           /\ Count(st, "scorer") = 1
           /\ scorer.pair_unset
           /\ last.pre.existed => Get(last.arg) \in scorer.files
           /\ Truthy(last.arg) => Pos(st, "try_remove") = 3
           /\ Count(st, "try_remove") <= 1
           /\ last.ok <=> Pos(st, "CandidateResult") > 0
           /\ last.ok => /\ Pos(st, "CandidateResult") = Len(st)
                         /\ Pos(st, "CandidateResult") > Pos(st, "try_remove")

\* a score() of an existing artifact, on a candidate that had a pair, has
\* returned after all four steps
C13_Witness ==
    /\ last.op = "score" /\ last.ok
    /\ last.pre.existed /\ last.pre.pair_set
    /\ Pos(last.steps, "try_remove") > 0
    /\ Pos(last.steps, "CandidateResult") > 0

\* C19: a score() given no artifact (None, or the empty result) invokes the
\* scorer with that value, after the reset, attempts no removal, and ends as
\* the scorer does: with a CandidateResult of the scorer's pair, or failed
\* with the pair unset.
C19_AbsentArtifact ==
    [][ \A o_file \in {None, Some(EmptyStr)}, out \in ScorerOutcomes :
            (last'.op = "score" /\ last'.arg = o_file /\ Score(1, o_file, out)) =>
               LET st == last'.steps
               IN /\ Pos(st, "scorer") > Pos(st, "reset")
                  /\ Pos(st, "reset") > 0
                  /\ st[Pos(st, "scorer")].arg = o_file
                  /\ st[Pos(st, "scorer")].pair_unset
                  /\ Pos(st, "try_remove") = 0
                  /\ fs' = fs
                  /\ last'.ok = out.ok
                  /\ IF out.ok
                     THEN /\ last'.ret /= None
                          /\ Get(last'.ret).score = Some(out.score)
                          /\ Get(last'.ret).hash = Some(out.hash)
                     ELSE /\ last'.ret = None
                          /\ cands'[1].score_value = None
                          /\ cands'[1].score_hash = None ]_vars

\* a score() given None, on a candidate that had a pair, has returned a
\* CandidateResult while an artifact exists untouched
C19_Witness ==
    /\ last.op = "score" /\ last.arg = None /\ last.ok
    /\ last.pre.pair_set
    /\ last.ret /= None
    /\ fs /= {}

\* C14: the rendered-source cache is not observable: whenever the cached
\* text is set it is the rendering of the current tree, so that get_source()
\* returns, compile() sends and a CandidateResult carries the text that a
\* candidate rendering on every call would.
C14_CacheTransparent ==
    /\ \A k \in DOMAIN cands :
          cands[k].cache_source /= None =>
             Get(cands[k].cache_source) = to_c(heap, cands[k].ast)
    /\ last.op = "get_source" => last.ret = to_c(heap, cands[last.slot].ast)
    /\ last.op = "compile" => last.arg = <<to_c(heap, cands[last.slot].ast)>>
    /\ (last.op = "score" /\ last.ok) =>
          Get(last.ret).source = to_c(heap, cands[last.slot].ast)

\* C15: the CandidateResult a score() returns carries the candidate's
\* score_value and score_hash as they are when score() returns, both set, and
\* the text get_source() returns then; no later call on the candidate, a
\* failed score() that resets the pair included, changes a result returned
\* earlier.
C15_ResultSnapshot ==
    [][ IF last'.op = "score" /\ last'.ok
        THEN /\ held' = last'.ret
             /\ Get(held').score = cands'[1].score_value
             /\ Get(held').hash = cands'[1].score_hash
             /\ Get(held').score /= None /\ Get(held').hash /= None
             /\ Get(held').source = get_source(heap', cands'[1]).text
        ELSE held' = held ]_vars

\* the worker holds a result with a score while the candidate's pair has been
\* reset by a failed score() and its tree randomized since
C15_Witness ==
    /\ held /= None
    /\ last.op = "score" /\ ~last.ok
    /\ cands[1].score_value = None /\ cands[1].score_hash = None
    /\ Get(held).score = Some(1)
    /\ Get(held).source /= to_c(heap, cands[1].ast)

\* C18: when score() is given an artifact that compile() made since the
\* candidate's last randomize_ast(), the source of the CandidateResult is the
\* text the compiler was given for that artifact, and score() does not invoke
\* the renderer.
C18_ResultIsCompiledText ==
    [][ (/\ last'.op = "score" /\ last'.ok
         /\ Truthy(last'.arg)
         /\ Get(last'.arg) \in DOMAIN probe[1].sent) =>
           /\ Get(last'.ret).source = probe[1].sent[Get(last'.arg)]
           /\ last'.renders = 0
           /\ Pos(last'.steps, "to_c") = 0 ]_vars

\* a randomized candidate was compiled and the artifact scored; the result
\* carries the text sent to the compiler
C18_Witness ==
    /\ last.op = "score" /\ last.ok /\ last.pre.existed /\ last.pre.cached
    /\ cands[1].randomizer.n > 0
    /\ last.renders = 0
    /\ Get(last.ret).source /= EmptyStr
    /\ Get(last.ret).source = to_c(heap, cands[1].ast)
    /\ TreeVals(heap, cands[1].ast) /= OriginalVals(probe[1].key)

----------------------------------------------------------------------------
(* Claims about engines and the cached tree *)

CachedTree(h, res) ==
    [ast |-> h[res.ast], ext |-> h[ExtOf(h, res.ast)],
     fn |-> h[res.orig_fn], body |-> h[BodyOf(h, res.orig_fn)],
     vals |-> TreeVals(h, res.ast)]

\* C17: no operation changes a tree stored in the cache: its declaration
\* list and function node are after the operation what they were before; a
\* candidate's orig_fn is the function node of the cache entry it was built
\* from, unmodified, and is not the node the candidate has at fn_index, which
\* has a body of its own.
C17_CachedTreeUntouched ==
    [][ /\ \A i \in DOMAIN cache :
              cache[i].key \in CacheKeys(cache') =>
                 LET e == cache[i].result
                     e2 == cache'[CachePos(cache', cache[i].key)].result
                 IN /\ CachedTree(heap', e2).vals = CachedTree(heap, e).vals
                    /\ e2.fn_index = e.fn_index
                    /\ ItemsOf(heap', e2.ast)[e2.fn_index] = e2.orig_fn
        /\ (last'.op = "from_source" /\ last'.ok) =>
              cands'[last'.slot].orig_fn
                 = cache'[CachePos(cache', last'.arg)].result.orig_fn
        /\ last'.op /= "from_source" =>
              /\ cache' = cache
              /\ \A i \in DOMAIN cache :
                    CachedTree(heap', cache[i].result)
                       = CachedTree(heap, cache[i].result)
              /\ \A k \in DOMAIN cands :
                    /\ cands'[k].orig_fn = cands[k].orig_fn
                    /\ heap'[cands'[k].orig_fn] = heap[cands[k].orig_fn]
        /\ \A k \in DOMAIN cands' :
              LET c == cands'[k]
                  own == ItemsOf(heap', c.ast)[c.fn_index]
              IN /\ own /= c.orig_fn
                 /\ BodyOf(heap', own) /= BodyOf(heap', c.orig_fn)
                 /\ heap'[BodyOf(heap', c.orig_fn)].val
                      = FnBody(probe'[k].key[1], probe'[k].key[2]) ]_vars

\* a randomize_ast() has changed the candidate's tree, and the cache entry
\* the candidate was built from still holds the original tree
C17_Witness ==
    /\ last.op = "randomize_ast" /\ last.ok
    /\ probe[1].key \in CacheKeys(cache)
    /\ LET e == cache[CachePos(cache, probe[1].key)].result
       IN /\ cands[1].orig_fn = e.orig_fn
          /\ TreeVals(heap, e.ast) = OriginalVals(probe[1].key)
          /\ TreeVals(heap, cands[1].ast) /= OriginalVals(probe[1].key)

----------------------------------------------------------------------------
(* Claims about the shared-tree cache *)

KeySeq(c) == [i \in DOMAIN c |-> c[i].key]

LastN(q, n) == IF Len(q) <= n THEN q ELSE SubSeq(q, Len(q) - n + 1, Len(q))

\* the candidate cand is built from the triple res: it refers to the
\* triple's function node as orig_fn, has its index, and shares with the
\* triple's tree every top-level node except the one at that index
BuiltFrom(h, cand, res) ==
    /\ cand.orig_fn = res.orig_fn
    /\ cand.fn_index = res.fn_index
    /\ ItemsOf(h, res.ast)[res.fn_index] = res.orig_fn
    /\ \A i \in DOMAIN ItemsOf(h, res.ast) :
          i /= res.fn_index => ItemsOf(h, cand.ast)[i] = ItemsOf(h, res.ast)[i]

\* C8: a from_source call whose key is in the cache does not invoke the
\* normalizer and builds the candidate from the stored triple; a call whose
\* key is not in the cache invokes the normalizer once and, when that
\* succeeds, the result is stored, so that the same key is a hit next.
C8_HitReusesMissStores ==
    [][ last'.op = "from_source" =>
          LET key == last'.arg
          IN IF key \in CacheKeys(cache)
             THEN /\ last'.parses = 0
                  /\ last'.ok
                  /\ key \in CacheKeys(cache')
                  /\ BuiltFrom(heap', cands'[last'.slot],
                               cache'[CachePos(cache', key)].result)
                  /\ TreeVals(heap', cache'[CachePos(cache', key)].result.ast)
                       = TreeVals(heap, cache[CachePos(cache, key)].result.ast)
                  /\ cache'[CachePos(cache', key)].result.fn_index
                       = cache[CachePos(cache, key)].result.fn_index
             ELSE /\ last'.parses = 1
                  /\ last'.ok = ParseOk(key[1], key[2])
                  /\ last'.ok =>
                        /\ key \in CacheKeys(cache')
                        /\ BuiltFrom(heap', cands'[last'.slot],
                                     cache'[CachePos(cache', key)].result) ]_vars

\* a hit on a key stored earlier, after an eviction has taken place
C8_Witness ==
    /\ last.op = "from_source" /\ last.ok /\ last.parses = 0
    /\ Len(recency) > MaxSize
    /\ last.arg \in CacheKeys(cache)

\* C9: the cache holds at most 16 entries, and they are the most recently
\* used keys in the order of their last use: a miss on a full cache evicts
\* the key used least recently, and a hit makes the key the most recent.
C9_LeastRecentlyUsed ==
    /\ Len(cache) <= MaxSize
    /\ KeySeq(cache) = LastN(recency, MaxSize)

\* the cache is full, a miss has evicted the second key, and the first key,
\* older but used again since, is still held
C9_Witness ==
    /\ last.op = "from_source" /\ last.ok /\ last.parses = 1
    /\ Len(cache) = MaxSize
    /\ <<1, "f">> \in CacheKeys(cache)
    /\ <<2, "f">> \notin CacheKeys(cache)
    /\ Len(recency) > MaxSize

\* C10: a from_source call whose normalizer fails fails itself, creates no
\* candidate, invokes the normalizer once and leaves the cache as it was,
\* the failed key not stored.
C10_ParseFailure ==
    [][ (last'.op = "from_source" /\ ~ParseOk(last'.arg[1], last'.arg[2])) =>
          /\ ~last'.ok
          /\ last'.parses = 1
          /\ cache' = cache
          /\ cands' = cands
          /\ heap' = heap
          /\ last'.arg \notin CacheKeys(cache') ]_vars

\* a from_source call has failed with a candidate and a cache entry present
C10_Witness ==
    /\ last.op = "from_source" /\ ~last.ok /\ last.parses = 1
    /\ last.slot \in DOMAIN cands
    /\ cache /= <<>>
    /\ last.arg \notin CacheKeys(cache)

====
